---- MODULE Spec2Model ----
(***************************************************************************)
(* Model of the weighing relay server (src/server.js): the WebSocket       *)
(* message handler (hello, ota_ack, telemetry, cfg, ignored messages) and  *)
(* the POST /config/:deviceId/firmware endpoint, over a Device Directory   *)
(* (the DeviceConfig collection) and the set of WebSocket connections.     *)
(*                                                                         *)
(* A handler that awaits the directory is split at its awaits: every       *)
(* action is one synchronous segment of a handler, and the directory       *)
(* operation a segment waited for takes effect at the start of the         *)
(* segment that resumes after it.  Segments of different handlers         *)
(* interleave freely, as do connection opens and closes.                   *)
(*                                                                         *)
(* A write to an open connection succeeds, except in the fan-out loops      *)
(* (telemetry, assign), where one write of a loop may throw.                *)
(*                                                                         *)
(* Strings are sequences of one-character strings, so that trim() is       *)
(* computed; numbers are integers counted in thousandths, so that          *)
(* grams / 1000.0 is exact.                                                *)
(***************************************************************************)
EXTENDS Integers, Sequences, FiniteSets, TLC

\* ------------------------------------------------------------------ bounds
MaxOps == 2

\* --------------------------------------------------------------- JS values
Undef == [t |-> "undefined", s |-> <<>>, n |-> 0]
Null == [t |-> "null", s |-> <<>>, n |-> 0]
Str(x) == [t |-> "string", s |-> x, n |-> 0]
Num(k) == [t |-> "number", s |-> <<>>, n |-> k]

\* one unit, in thousandths
Unit == 1000

Truthy(v) ==
  \/ v.t = "string" /\ v.s # <<>>
  \/ v.t = "number" /\ v.n # 0

\* a || b
OrElse(a, b) == IF Truthy(a) THEN a ELSE b

IsSpace(ch) == ch = " "

RECURSIVE TrimStart(_)
TrimStart(x) ==
  IF x = <<>> THEN <<>>
  ELSE IF IsSpace(Head(x)) THEN TrimStart(Tail(x)) ELSE x

RECURSIVE TrimEnd(_)
TrimEnd(x) ==
  IF x = <<>> THEN <<>>
  ELSE IF IsSpace(x[Len(x)]) THEN TrimEnd(SubSeq(x, 1, Len(x) - 1)) ELSE x

\* String.prototype.trim
Trim(x) == TrimEnd(TrimStart(x))

Digit(d) == <<"0", "1", "2", "3", "4", "5", "6", "7", "8", "9">>[d + 1]

RECURSIVE Digits(_)
Digits(k) == IF k < 10 THEN <<Digit(k)>> ELSE Digits(k \div 10) \o <<Digit(k % 10)>>

\* String(v) for the strings and the non-negative whole numbers
JsString(v) == IF v.t = "string" THEN v.s ELSE Digits(v.n \div Unit)

\* ----------------------------------------------------------- event names
EvHello == <<"h", "e", "l", "l", "o">>
EvOtaAck == <<"o", "t", "a", "_", "a", "c", "k">>
EvCfg == <<"c", "f", "g">>
EvOta == <<"o", "t", "a">>
EvConfig == <<"c", "o", "n", "f", "i", "g">>
EvTelemetry == <<"t", "e", "l", "e", "m", "e", "t", "r", "y">>
ScopeAll == <<"a", "l", "l">>

\* ------------------------------------------------------- Device Directory
DefaultSecondsToRead == 1000
DefaultThreshold == 50
DefaultFirmwareSize == 0

\* no document stored
NoDoc ==
  [exists |-> FALSE, secondsToRead |-> 0, threshold |-> 0, enabled |-> FALSE,
   firmwareUrl |-> Undef, firmwareVersion |-> <<>>, firmwareSha256 |-> <<>>,
   firmwareSize |-> 0]

\* deviceSchema: the document DeviceConfig.create({deviceId}) stores
deviceSchema ==
  [exists |-> TRUE, secondsToRead |-> DefaultSecondsToRead,
   threshold |-> DefaultThreshold, enabled |-> TRUE,
   firmwareUrl |-> Str(<<>>), firmwareVersion |-> <<>>, firmwareSha256 |-> <<>>,
   firmwareSize |-> DefaultFirmwareSize]

\* the identifiers that have a place in the directory
Devices == {<<"d">>, <<"e">>}

\* Model.findOne: the stored document with the schema defaults applied to
\* the paths it lacks
Hydrate(doc) ==
  IF doc.exists /\ doc.firmwareUrl.t = "undefined"
  THEN [doc EXCEPT !.firmwareUrl = deviceSchema.firmwareUrl]
  ELSE doc

\* ------------------------------------------------------------- connections
Conns == {1, 2, 3}

NoConn == [state |-> "none", deviceId |-> Undef]

\* --------------------------------------------------- inbound message bodies
\* a socket message: text that is not JSON, or a parsed JSON object
Blank ==
  [json |-> "object", event |-> Undef, deviceId |-> Undef, version |-> Undef,
   sha |-> Undef, firmwareSha256 |-> Undef, weight |-> Undef, kg |-> Undef,
   grams |-> Undef, timestamp |-> Undef]

\* no message, no request
NoInput == [json |-> "none"]

Times == {Num(5 * Unit)}

\* ------------------------------------------------------------------- state
VARIABLES
  db,      \* Device Directory: identifier -> stored document (or NoDoc)
  conns,   \* connection -> readyState and ws.deviceId
  tasks,   \* the handlers suspended on the directory, oldest first
  nops,    \* requests and messages received so far
  last,    \* the segment that ran last: what it was given and what it saw
  sent     \* the messages written to open connections by that segment

vars == <<db, conns, tasks, nops, last, sent>>

\* a handler and the locals it uses after its awaits; failing is the set of
\* connections whose write threw in the segment (recorded in last only)
NoTask ==
  [kind |-> "none", pc |-> "none", conn |-> 0, deviceId |-> <<>>,
   deviceVersion |-> Null, sha |-> <<>>, body |-> NoInput, cfg |-> NoDoc, orig |-> NoDoc,
   failing |-> {}]

Segment(op, t, m) == [op |-> op, task |-> t, inp |-> m]

\* The directory is durable: when the server starts it holds what earlier
\* runs stored.  Each of these is a directory the operations below produce
\* from the empty one: nothing stored; an assignment pending for "d" (after
\* an assign with url, version, hash and size); the assignment of "d"
\* acknowledged with a hash (after that assign and an ota_ack).
InitialDirectories ==
  {[d \in Devices |-> NoDoc],
   [d \in Devices |->
      IF d = <<"d">>
      THEN [deviceSchema EXCEPT !.firmwareUrl = Str(<<"u">>), !.firmwareVersion = <<"1">>,
                                !.firmwareSha256 = <<"a">>, !.firmwareSize = 4 * Unit]
      ELSE NoDoc],
   [d \in Devices |->
      IF d = <<"d">>
      THEN [deviceSchema EXCEPT !.firmwareUrl = Undef, !.firmwareVersion = <<"2">>,
                                !.firmwareSha256 = <<"a">>, !.firmwareSize = 4 * Unit]
      ELSE NoDoc]}

Init ==
  /\ db \in InitialDirectories
  /\ conns = [c \in Conns |-> NoConn]
  /\ tasks = <<>>
  /\ nops = 0
  /\ last = Segment("init", NoTask, NoInput)
  /\ sent = <<>>

IsOpen(c) == conns[c].state = "open"

\* the document of an identifier in a directory, as a lookup returns it
Record(dir, id) == IF id \in DOMAIN dir THEN Hydrate(dir[id]) ELSE NoDoc

\* DeviceConfig.findOne({ deviceId })
findOne(id) == Record(db, id)

Remove(seq, i) == SubSeq(seq, 1, i - 1) \o SubSeq(seq, i + 1, Len(seq))

\* the connections of wss.clients in iteration (connection) order
RECURSIVE Ordered(_)
Ordered(S) ==
  IF S = {} THEN <<>>
  ELSE LET c == CHOOSE x \in S : \A y \in S : x <= y
       IN <<c>> \o Ordered(S \ {c})

\* mutant: the message reaches a connection whatever its readyState
RECURSIVE SendAll_Unchecked(_, _)
SendAll_Unchecked(cs, msg) ==
  IF cs = <<>> THEN <<>>
  ELSE <<[to |-> Head(cs), msg |-> msg]>> \o SendAll_Unchecked(Tail(cs), msg)

\* ws.send on each of the connections in turn; a connection that is not
\* open receives nothing
RECURSIVE SendAll(_, _)
SendAll(cs, msg) ==
  IF cs = <<>> THEN <<>>
  ELSE (IF IsOpen(Head(cs)) THEN <<[to |-> Head(cs), msg |-> msg]>> ELSE <<>>)
       \o SendAll(Tail(cs), msg)

\* the writes that may throw in one fan-out over the connections of S: none,
\* or the write to one of them
WriteFailures(S) == {{}} \cup {{c} : c \in S}

\* wss.clients.forEach(client => ... client.send(msg)): a connection that is
\* not open is skipped; the write to a connection of F throws, and the throw
\* is swallowed where the loop body has its own try/catch (caught) and ends
\* the loop where it has none
RECURSIVE ForEachSend(_, _, _, _)
ForEachSend(cs, msg, F, caught) ==
  IF cs = <<>> THEN <<>>
  ELSE IF ~IsOpen(Head(cs)) THEN ForEachSend(Tail(cs), msg, F, caught)
  ELSE IF Head(cs) \in F
       THEN (IF caught THEN ForEachSend(Tail(cs), msg, F, caught) ELSE <<>>)
       ELSE <<[to |-> Head(cs), msg |-> msg]>> \o ForEachSend(Tail(cs), msg, F, caught)

\* ------------------------------------------------------ outbound messages
Out ==
  [event |-> <<>>, deviceId |-> Undef, url |-> Undef, version |-> Undef,
   firmwareSha256 |-> Undef, secondsToRead |-> 0, threshold |-> 0,
   enabled |-> FALSE, firmwareUrl |-> Undef, firmwareVersion |-> Undef,
   weight |-> Undef, timestamp |-> Undef]

\* ------------------------------------------------------------ connections
\* wss.on("connection")
Connect(c) ==
  /\ conns[c].state = "none"
  /\ \A b \in Conns : b < c => conns[b].state # "none"
  /\ conns' = [conns EXCEPT ![c] = [state |-> "open", deviceId |-> Undef]]
  /\ last' = Segment("connect", [NoTask EXCEPT !.conn = c], NoInput)
  /\ sent' = <<>>
  /\ UNCHANGED <<db, tasks, nops>>

\* ws.on("close")
Close(c) ==
  /\ IsOpen(c)
  /\ conns' = [conns EXCEPT ![c].state = "closed"]
  /\ last' = Segment("close", [NoTask EXCEPT !.conn = c], NoInput)
  /\ sent' = <<>>
  /\ UNCHANGED <<db, tasks, nops>>

\* ------------------------------------------------------------- dispatching
\* the socket messages that arrive: text that is not JSON, the JSON null, and
\* JSON objects
Hello(d, v) == [Blank EXCEPT !.event = Str(EvHello), !.deviceId = d, !.version = v]

OtaAck(d, v, sha, firmwareSha256) ==
  [Blank EXCEPT !.event = Str(EvOtaAck), !.deviceId = d, !.version = v,
                !.sha = sha, !.firmwareSha256 = firmwareSha256]

Telemetry(ev, d, w, k, g) ==
  [Blank EXCEPT !.event = ev, !.deviceId = d, !.weight = w, !.kg = k, !.grams = g]

Messages ==
  {[Blank EXCEPT !.json = "text"],
   [Blank EXCEPT !.json = "null"],
   Hello(Str(<<"d">>), Undef),
   Hello(Str(<<"d">>), Str(<<"1">>)),
   Hello(Str(<<" ", "d">>), Str(<<"2", " ">>)),
   [Hello(Str(<<"e">>), Str(<<"1">>)) EXCEPT !.weight = Num(1500)],
   Hello(Undef, Str(<<"1">>)),
   OtaAck(Str(<<"d">>), Str(<<"1">>), Undef, Undef),
   OtaAck(Str(<<" ", "d">>), Str(<<"2", " ">>), Str(<<"a">>), Undef),
   OtaAck(Str(<<"d">>), Str(<<"2">>), Undef, Str(<<"b">>)),
   Telemetry(Undef, Str(<<"d">>), Num(1500), Num(2000), Num(2500 * Unit)),
   Telemetry(Undef, Str(<<"d">>), Undef, Num(2000), Num(2500 * Unit)),
   Telemetry(Str(EvOtaAck), Str(<<" ", "d">>), Str(<<"1">>), Undef, Num(2500 * Unit)),
   Telemetry(Str(EvCfg), Str(<<"d">>), Undef, Num(2000), Undef),
   Telemetry(Str(EvCfg), Str(<<"d">>), Undef, Undef, Undef),
   Telemetry(Str(EvCfg), Str(<<" ", "d">>), Undef, Undef, Undef),
   Telemetry(Str(EvCfg), Num(7 * Unit), Num(1500), Undef, Undef)}

hasDeviceId(parsed) == Truthy(parsed.deviceId) /\ parsed.deviceId.t = "string"

hasWeight(parsed) ==
  \/ parsed.weight.t = "number"
  \/ parsed.kg.t = "number"
  \/ parsed.grams.t = "number"

\* mutant: the cfg branch is tried before the telemetry branch
Branch_CfgFirst(m) ==
  IF m.json = "text" THEN "unparsed"
  ELSE IF m.json = "null" THEN "threw"
  ELSE IF m.event = Str(EvHello) /\ Truthy(m.deviceId) THEN "hello"
  ELSE IF m.event = Str(EvOtaAck) /\ Truthy(m.deviceId) /\ Truthy(m.version) THEN "ota_ack"
  ELSE IF m.event = Str(EvCfg) /\ Truthy(m.deviceId) THEN "cfg"
  ELSE IF hasDeviceId(m) /\ hasWeight(m) THEN "telemetry"
  ELSE "unhandled"

\* mutant: a hello needs no device identifier
Branch_HelloAnyId(m) ==
  IF m.json = "text" THEN "unparsed"
  ELSE IF m.json = "null" THEN "threw"
  ELSE IF m.event = Str(EvHello) THEN "hello"
  ELSE IF m.event = Str(EvOtaAck) /\ Truthy(m.deviceId) /\ Truthy(m.version) THEN "ota_ack"
  ELSE IF hasDeviceId(m) /\ hasWeight(m) THEN "telemetry"
  ELSE IF m.event = Str(EvCfg) /\ Truthy(m.deviceId) THEN "cfg"
  ELSE "unhandled"

\* the branch of ws.on("message") that handles the message
Branch(m) ==
  IF m.json = "text" THEN "unparsed"
  ELSE IF m.json = "null" THEN "threw"
  ELSE IF m.event = Str(EvHello) /\ Truthy(m.deviceId) THEN "hello"
  ELSE IF m.event = Str(EvOtaAck) /\ Truthy(m.deviceId) /\ Truthy(m.version) THEN "ota_ack"
  ELSE IF hasDeviceId(m) /\ hasWeight(m) THEN "telemetry"
  ELSE IF m.event = Str(EvCfg) /\ Truthy(m.deviceId) THEN "cfg"
  ELSE "unhandled"

\* ------------------------------------------------------------------- hello
\* mutant: the ota notification carries no hash
otaMsg_NoHash(cfg, deviceId) ==
  [Out EXCEPT !.event = EvOta, !.url = cfg.firmwareUrl,
              !.version = OrElse(Str(cfg.firmwareVersion), Null),
              !.firmwareSha256 = Null,
              !.deviceId = Str(deviceId)]

otaMsg(cfg, deviceId) ==
  [Out EXCEPT !.event = EvOta, !.url = cfg.firmwareUrl,
              !.version = OrElse(Str(cfg.firmwareVersion), Null),
              !.firmwareSha256 = OrElse(Str(cfg.firmwareSha256), Null),
              !.deviceId = Str(deviceId)]

cfgMsg(cfg, deviceId) ==
  [Out EXCEPT !.event = EvConfig, !.deviceId = Str(deviceId),
              !.secondsToRead = cfg.secondsToRead, !.threshold = cfg.threshold,
              !.enabled = cfg.enabled]

ackMsg(deviceId, deviceVersion) ==
  [Out EXCEPT !.event = EvOtaAck, !.deviceId = Str(deviceId), !.version = deviceVersion]

\* mutant: any reported version counts as the assigned one
VersionMatches_AnyReported(cfg, deviceVersion) ==
  /\ cfg.exists
  /\ cfg.firmwareVersion # <<>>
  /\ Truthy(deviceVersion)

\* cfg.firmwareVersion === deviceVersion, both non-empty
VersionMatches(cfg, deviceVersion) ==
  /\ cfg.exists
  /\ cfg.firmwareVersion # <<>>
  /\ Truthy(deviceVersion)
  /\ Str(cfg.firmwareVersion) = deviceVersion

\* mutant: the ota notification is sent whenever a url is stored
HelloOta_Always(c, cfg, deviceId, deviceVersion) ==
  IF cfg.exists /\ Truthy(cfg.firmwareUrl)
  THEN SendAll(<<c>>, otaMsg(cfg, deviceId))
  ELSE <<>>

\* the ota notification of a hello
HelloOta(c, cfg, deviceId, deviceVersion) ==
  IF /\ cfg.exists
     /\ Truthy(cfg.firmwareUrl)
     /\ Len(cfg.firmwareUrl.s) > 0
     /\ (cfg.firmwareVersion = <<>> \/ Str(cfg.firmwareVersion) # deviceVersion)
  THEN SendAll(<<c>>, otaMsg(cfg, deviceId))
  ELSE <<>>

\* mutant: the config message is sent only while an assignment is stored
HelloConfig_OnlyPending(c, cfg, deviceId) ==
  IF cfg.exists /\ Truthy(cfg.firmwareUrl) THEN SendAll(<<c>>, cfgMsg(cfg, deviceId)) ELSE <<>>

\* the config message of a hello
HelloConfig(c, cfg, deviceId) ==
  IF cfg.exists THEN SendAll(<<c>>, cfgMsg(cfg, deviceId)) ELSE <<>>

\* mutant: the config message is written before the ota notification
HelloReplies_ConfigFirst(c, cfg, deviceId, deviceVersion) ==
  HelloConfig(c, cfg, deviceId) \o HelloOta(c, cfg, deviceId, deviceVersion)

\* the ota notification, then the config message
HelloReplies(c, cfg, deviceId, deviceVersion) ==
  HelloOta(c, cfg, deviceId, deviceVersion) \o HelloConfig(c, cfg, deviceId)

\* the acknowledgement of a hello that cleared the assignment
HelloAck(c, deviceId, deviceVersion) ==
  IF IsOpen(c) THEN SendAll(<<c>>, ackMsg(deviceId, deviceVersion)) ELSE <<>>

\* mutant: the update is filtered by the identifier alone
HelloClearUpdate_AnyVersion(doc, firmwareVersion) ==
  IF doc.exists
  THEN [doc EXCEPT !.firmwareUrl = Str(<<>>), !.firmwareSha256 = <<>>]
  ELSE doc

\* mutant: the update also resets the recorded version
HelloClearUpdate_ResetsVersion(doc, firmwareVersion) ==
  IF doc.exists /\ doc.firmwareVersion = firmwareVersion
  THEN [doc EXCEPT !.firmwareUrl = Str(<<>>), !.firmwareSha256 = <<>>, !.firmwareVersion = <<>>]
  ELSE doc

\* mutant: the update clears the hash and leaves the url
HelloClearUpdate_KeepsUrl(doc, firmwareVersion) ==
  IF doc.exists /\ doc.firmwareVersion = firmwareVersion
  THEN [doc EXCEPT !.firmwareSha256 = <<>>]
  ELSE doc

\* findOneAndUpdate({deviceId, firmwareVersion}, {$set: {firmwareUrl: "",
\* firmwareSha256: ""}})
HelloClearUpdate(doc, firmwareVersion) ==
  IF doc.exists /\ doc.firmwareVersion = firmwareVersion
  THEN [doc EXCEPT !.firmwareUrl = Str(<<>>), !.firmwareSha256 = <<>>]
  ELSE doc

\* mutant: only the first hello of a connection binds it
RecvHello_BindOnce(c, m) ==
  /\ IsOpen(c)
  /\ nops < MaxOps
  /\ Branch(m) = "hello"
  /\ LET deviceId == Trim(JsString(m.deviceId))
         deviceVersion == IF Truthy(m.version) THEN Str(Trim(JsString(m.version))) ELSE Null
         t == [NoTask EXCEPT !.kind = "hello", !.pc = "findOne", !.conn = c,
                             !.deviceId = deviceId, !.deviceVersion = deviceVersion]
     IN /\ conns' = [conns EXCEPT ![c].deviceId = IF Truthy(@) THEN @ ELSE Str(deviceId)]
        /\ tasks' = Append(tasks, t)
        /\ last' = Segment("hello_recv", t, m)
  /\ nops' = nops + 1
  /\ sent' = <<>>
  /\ UNCHANGED db

\* a hello arrives: the connection is bound and the lookup is issued
RecvHello(c, m) ==
  /\ IsOpen(c)
  /\ nops < MaxOps
  /\ Branch(m) = "hello"
  /\ LET deviceId == Trim(JsString(m.deviceId))
         deviceVersion == IF Truthy(m.version) THEN Str(Trim(JsString(m.version))) ELSE Null
         t == [NoTask EXCEPT !.kind = "hello", !.pc = "findOne", !.conn = c,
                             !.deviceId = deviceId, !.deviceVersion = deviceVersion]
     IN /\ conns' = [conns EXCEPT ![c].deviceId = Str(deviceId)]
        /\ tasks' = Append(tasks, t)
        /\ last' = Segment("hello_recv", t, m)
  /\ nops' = nops + 1
  /\ sent' = <<>>
  /\ UNCHANGED db

\* the lookup of a hello returns: either the clear is issued, or the hello
\* finishes with its ota and config messages
HelloFound(i) ==
  /\ i \in 1..Len(tasks)
  /\ tasks[i].kind = "hello"
  /\ tasks[i].pc = "findOne"
  /\ LET cfg == findOne(tasks[i].deviceId)
         t == [tasks[i] EXCEPT !.cfg = cfg]
     IN IF VersionMatches(cfg, t.deviceVersion)
        THEN /\ tasks' = [tasks EXCEPT ![i] = [t EXCEPT !.pc = "clear"]]
             /\ last' = Segment("hello_found", t, NoInput)
             /\ sent' = <<>>
        ELSE /\ tasks' = Remove(tasks, i)
             /\ last' = Segment("hello_done", t, NoInput)
             /\ sent' = HelloReplies(t.conn, cfg, t.deviceId, t.deviceVersion)
  /\ UNCHANGED <<db, conns, nops>>

\* the clear of a hello returns: acknowledgement, then ota and config
HelloCleared(i) ==
  /\ i \in 1..Len(tasks)
  /\ tasks[i].kind = "hello"
  /\ tasks[i].pc = "clear"
  /\ LET t == tasks[i]
     IN /\ db' = IF t.deviceId \in DOMAIN db
                 THEN [db EXCEPT ![t.deviceId] = HelloClearUpdate(@, t.cfg.firmwareVersion)]
                 ELSE db
        /\ tasks' = Remove(tasks, i)
        /\ last' = Segment("hello_cleared", t, NoInput)
        /\ sent' = HelloAck(t.conn, t.deviceId, t.deviceVersion)
                   \o HelloReplies(t.conn, t.cfg, t.deviceId, t.deviceVersion)
  /\ UNCHANGED <<conns, nops>>

\* ----------------------------------------------------------------- ota_ack
\* findOneAndUpdate({deviceId}, {$set: {firmwareVersion, firmwareSha256,
\* firmwareUploadedAt}, $unset: {firmwareUrl}})
\* mutant: the hash is written only when the message supplies one
OtaAckUpdate_HashIfSupplied(doc, ver, sha) ==
  IF doc.exists
  THEN [doc EXCEPT !.firmwareVersion = ver,
                   !.firmwareSha256 = IF sha # <<>> THEN sha ELSE @,
                   !.firmwareUrl = Undef]
  ELSE doc

\* mutant: the acknowledgement records the version and leaves the url
OtaAckUpdate_KeepsUrl(doc, ver, sha) ==
  IF doc.exists
  THEN [doc EXCEPT !.firmwareVersion = ver, !.firmwareSha256 = sha]
  ELSE doc

OtaAckUpdate(doc, ver, sha) ==
  IF doc.exists
  THEN [doc EXCEPT !.firmwareVersion = ver, !.firmwareSha256 = sha, !.firmwareUrl = Undef]
  ELSE doc

\* parsed.sha || parsed.firmwareSha256 || ""
AckSha(parsed) == OrElse(OrElse(parsed.sha, parsed.firmwareSha256), Str(<<>>)).s

\* an ota_ack arrives: the update is issued
RecvOtaAck(c, m) ==
  /\ IsOpen(c)
  /\ nops < MaxOps
  /\ Branch(m) = "ota_ack"
  /\ LET t == [NoTask EXCEPT !.kind = "ota_ack", !.pc = "update", !.conn = c,
                             !.deviceId = Trim(JsString(m.deviceId)),
                             !.deviceVersion = Str(Trim(JsString(m.version))),
                             !.sha = AckSha(m)]
     IN /\ tasks' = Append(tasks, t)
        /\ last' = Segment("ota_ack_recv", t, m)
  /\ nops' = nops + 1
  /\ sent' = <<>>
  /\ UNCHANGED <<db, conns>>

\* the update of an ota_ack returns
OtaAckUpdated(i) ==
  /\ i \in 1..Len(tasks)
  /\ tasks[i].kind = "ota_ack"
  /\ tasks[i].pc = "update"
  /\ LET t == tasks[i]
     IN /\ db' = IF t.deviceId \in DOMAIN db
                 THEN [db EXCEPT ![t.deviceId] = OtaAckUpdate(@, t.deviceVersion.s, t.sha)]
                 ELSE db
        /\ tasks' = Remove(tasks, i)
        /\ last' = Segment("ota_ack_done", t, NoInput)
        /\ sent' = <<>>
  /\ UNCHANGED <<conns, nops>>

\* --------------------------------------------------------------- telemetry
\* mutant: kg is preferred to weight
weightVal_KgFirst(parsed) ==
  IF parsed.kg.t = "number" THEN parsed.kg
  ELSE IF parsed.weight.t = "number" THEN parsed.weight
  ELSE Num(parsed.grams.n \div 1000)

\* weightVal: weight, else kg, else grams / 1000.0
weightVal(parsed) ==
  IF parsed.weight.t = "number" THEN parsed.weight
  ELSE IF parsed.kg.t = "number" THEN parsed.kg
  ELSE Num(parsed.grams.n \div 1000)

telemetryMsg(parsed, now) ==
  [Out EXCEPT !.event = EvTelemetry, !.deviceId = Str(Trim(JsString(parsed.deviceId))),
              !.weight = weightVal(parsed),
              !.timestamp = OrElse(parsed.timestamp, now)]

\* mutant: the origin is not excluded
Others_WithOrigin(ws) == Conns

\* client !== ws
Others(ws) == Conns \ {ws}

\* the fan-out loop of a telemetry message, each write in its own try/catch
TelemetryFanOut(c, msg, F) == ForEachSend(Ordered(Others(c)), msg, F, TRUE)

\* a telemetry message arrives and is fanned out to the other connections
RecvTelemetry(c, m, now, F) ==
  /\ IsOpen(c)
  /\ nops < MaxOps
  /\ Branch(m) = "telemetry"
  /\ F \subseteq {b \in Others(c) : IsOpen(b)}
  /\ nops' = nops + 1
  /\ last' = Segment("telemetry", [NoTask EXCEPT !.kind = "telemetry", !.conn = c,
                                                !.failing = F], m)
  /\ sent' = TelemetryFanOut(c, telemetryMsg(m, now), F)
  /\ UNCHANGED <<db, conns, tasks>>

\* --------------------------------------------------------------------- cfg
cfgReply(cfg) ==
  [Out EXCEPT !.event = EvConfig, !.secondsToRead = cfg.secondsToRead,
              !.threshold = cfg.threshold, !.enabled = cfg.enabled,
              !.firmwareUrl = OrElse(cfg.firmwareUrl, Null),
              !.firmwareVersion = OrElse(Str(cfg.firmwareVersion), Null),
              !.firmwareSha256 = OrElse(Str(cfg.firmwareSha256), Null)]

\* mutant: the reply goes to every connection
CfgSend_All(c, cfg, deviceId) ==
  IF cfg.exists /\ IsOpen(c)
  THEN SendAll(Ordered(Conns), [cfgReply(cfg) EXCEPT !.deviceId = Str(deviceId)])
  ELSE <<>>

\* if (cfg && ws.readyState === ws.OPEN) ws.send(cfgMsg)
CfgSend(c, cfg, deviceId) ==
  IF cfg.exists /\ IsOpen(c)
  THEN SendAll(<<c>>, [cfgReply(cfg) EXCEPT !.deviceId = Str(deviceId)])
  ELSE <<>>

\* a cfg request arrives: the lookup is issued
RecvCfg(c, m) ==
  /\ IsOpen(c)
  /\ nops < MaxOps
  /\ Branch(m) = "cfg"
  /\ LET t == [NoTask EXCEPT !.kind = "cfg", !.pc = "findOne", !.conn = c,
                             !.deviceId = JsString(m.deviceId)]
     IN /\ tasks' = Append(tasks, t)
        /\ last' = Segment("cfg_recv", t, m)
  /\ nops' = nops + 1
  /\ sent' = <<>>
  /\ UNCHANGED <<db, conns>>

\* the lookup of a cfg request returns
CfgFound(i) ==
  /\ i \in 1..Len(tasks)
  /\ tasks[i].kind = "cfg"
  /\ tasks[i].pc = "findOne"
  /\ LET cfg == findOne(tasks[i].deviceId)
         t == [tasks[i] EXCEPT !.cfg = cfg]
     IN /\ tasks' = Remove(tasks, i)
        /\ last' = Segment("cfg_done", t, NoInput)
        /\ sent' = CfgSend(t.conn, cfg, t.deviceId)
  /\ UNCHANGED <<db, conns, nops>>

\* ---------------------------------------------------------------- ignored
\* a message that is not JSON, or that no branch handles
RecvIgnored(c, m) ==
  /\ IsOpen(c)
  /\ nops < MaxOps
  /\ Branch(m) \in {"unparsed", "threw", "unhandled"}
  /\ nops' = nops + 1
  /\ last' = Segment("ignored", [NoTask EXCEPT !.kind = "ignored", !.conn = c], m)
  /\ sent' = <<>>
  /\ UNCHANGED <<db, conns, tasks>>

\* ------------------------------------------- POST /config/:deviceId/firmware
\* the request bodies, each with its :deviceId parameter
Assign(d, u, v, h, z, b) ==
  [deviceId |-> Str(d), firmwareUrl |-> u, firmwareVersion |-> v,
   firmwareSha256 |-> h, firmwareSize |-> z, broadcast |-> b]

Requests ==
  {Assign(<<"d">>, Str(<<"u">>), Str(<<"1">>), Str(<<"a">>), Num(4 * Unit), Undef),
   Assign(<<"d">>, Str(<<"v">>), Str(<<"2">>), Undef, Undef, Undef),
   Assign(<<"d">>, Str(<<"v">>), Undef, Str(<<"b">>), Undef, Str(ScopeAll)),
   Assign(<<"d">>, Str(<<"u">>), Undef, Undef, Num(8 * Unit), Str(ScopeAll)),
   Assign(<<"e">>, Str(<<"u">>), Str(<<"1">>), Str(<<"a">>), Num(4 * Unit), Undef),
   Assign(<<"d">>, Undef, Str(<<"2">>), Undef, Undef, Str(ScopeAll)),
   Assign(<<"d">>, Str(<<>>), Str(<<"2">>), Str(<<"b">>), Num(8 * Unit), Undef)}

\* mutant: the version is assigned even when the request has none
AssignFields_AlwaysVersion(config, body) ==
  [config EXCEPT
     !.firmwareUrl = body.firmwareUrl,
     !.firmwareVersion = body.firmwareVersion.s,
     !.firmwareSha256 = IF Truthy(body.firmwareSha256) THEN body.firmwareSha256.s ELSE @,
     !.firmwareSize = IF Truthy(body.firmwareSize) THEN body.firmwareSize.n ELSE @]

\* the assignments to the loaded document
AssignFields(config, body) ==
  [config EXCEPT
     !.firmwareUrl = body.firmwareUrl,
     !.firmwareVersion = IF Truthy(body.firmwareVersion) THEN body.firmwareVersion.s ELSE @,
     !.firmwareSha256 = IF Truthy(body.firmwareSha256) THEN body.firmwareSha256.s ELSE @,
     !.firmwareSize = IF Truthy(body.firmwareSize) THEN body.firmwareSize.n ELSE @]

\* mutant: the save is refused when the stored document is no longer the
\* loaded one
Save_IfUnchanged(doc, orig, config) ==
  IF Hydrate(doc) # orig THEN doc
  ELSE [doc EXCEPT !.firmwareUrl = config.firmwareUrl,
                   !.firmwareVersion = config.firmwareVersion,
                   !.firmwareSha256 = config.firmwareSha256,
                   !.firmwareSize = config.firmwareSize]

\* config.save(): the paths whose value differs from the loaded one are
\* written to the stored document
Save(doc, orig, config) ==
  [doc EXCEPT
     !.firmwareUrl = IF config.firmwareUrl # orig.firmwareUrl THEN config.firmwareUrl ELSE @,
     !.firmwareVersion =
        IF config.firmwareVersion # orig.firmwareVersion THEN config.firmwareVersion ELSE @,
     !.firmwareSha256 =
        IF config.firmwareSha256 # orig.firmwareSha256 THEN config.firmwareSha256 ELSE @,
     !.firmwareSize = IF config.firmwareSize # orig.firmwareSize THEN config.firmwareSize ELSE @]

assignOtaMsg(body) ==
  [Out EXCEPT !.event = EvOta, !.url = body.firmwareUrl,
              !.version = OrElse(body.firmwareVersion, Null),
              !.firmwareSha256 = OrElse(body.firmwareSha256, Null),
              !.deviceId = body.deviceId]

\* mutant: the targeted loop sends to every announced connection
Matching_AnyAnnounced(deviceId) == {c \in Conns : Truthy(conns[c].deviceId)}

\* the connections the targeted loop sends to
Matching(deviceId) ==
  {c \in Conns : Truthy(conns[c].deviceId) /\ conns[c].deviceId = deviceId}

\* the connections an assign selects
Selected(body) ==
  IF body.broadcast = Str(ScopeAll) THEN Conns ELSE Matching(body.deviceId)

\* the ota dispatch of an assign: the loop of scope "all" has no try/catch
\* around its write, the targeted loop has one
Broadcast(body, F) ==
  IF body.broadcast = Str(ScopeAll)
  THEN ForEachSend(Ordered(Conns), assignOtaMsg(body), F, FALSE)
  ELSE ForEachSend(Ordered(Matching(body.deviceId)), assignOtaMsg(body), F, TRUE)

\* a write of the dispatch threw out of its loop, into the catch of the
\* endpoint
BroadcastThrew(body, F) ==
  body.broadcast = Str(ScopeAll) /\ \E c \in F : IsOpen(c)

\* mutant: only an absent url is refused, an empty one is accepted
urlMissing_OnlyAbsent(body) == body.firmwareUrl.t = "undefined"

\* !firmwareUrl
urlMissing(body) == ~Truthy(body.firmwareUrl)

\* a request without firmwareUrl is answered 400
AssignRejected(r) ==
  /\ nops < MaxOps
  /\ urlMissing(r)
  /\ nops' = nops + 1
  /\ last' = Segment("assign_400", [NoTask EXCEPT !.kind = "assign",
                                                 !.deviceId = r.deviceId.s], r)
  /\ sent' = <<>>
  /\ UNCHANGED <<db, conns, tasks>>

\* a request with firmwareUrl arrives: the lookup is issued
RecvAssign(r) ==
  /\ nops < MaxOps
  /\ ~urlMissing(r)
  /\ LET t == [NoTask EXCEPT !.kind = "assign", !.pc = "findOne", !.body = r,
                             !.deviceId = r.deviceId.s]
     IN /\ tasks' = Append(tasks, t)
        /\ last' = Segment("assign_recv", t, r)
  /\ nops' = nops + 1
  /\ sent' = <<>>
  /\ UNCHANGED <<db, conns>>

\* the lookup of an assign returns: the document is created if there is
\* none, else it is modified and its save is issued
AssignFound(i) ==
  /\ i \in 1..Len(tasks)
  /\ tasks[i].kind = "assign"
  /\ tasks[i].pc = "findOne"
  /\ LET config == findOne(tasks[i].deviceId)
         t == IF config.exists
              THEN [tasks[i] EXCEPT !.pc = "save", !.orig = config,
                                    !.cfg = AssignFields(config, tasks[i].body)]
              ELSE [tasks[i] EXCEPT !.pc = "create"]
     IN /\ tasks' = [tasks EXCEPT ![i] = t]
        /\ last' = Segment("assign_found", t, NoInput)
  /\ sent' = <<>>
  /\ UNCHANGED <<db, conns, nops>>

\* DeviceConfig.create returns: the new document is modified and its save is
\* issued; the unique index rejects a second document for the identifier,
\* and the request is then answered 500
AssignCreated(i) ==
  /\ i \in 1..Len(tasks)
  /\ tasks[i].kind = "assign"
  /\ tasks[i].pc = "create"
  /\ IF db[tasks[i].deviceId].exists
     THEN /\ tasks' = Remove(tasks, i)
          /\ last' = Segment("assign_500", tasks[i], NoInput)
          /\ UNCHANGED db
     ELSE LET t == [tasks[i] EXCEPT !.pc = "save", !.orig = deviceSchema,
                                    !.cfg = AssignFields(deviceSchema, tasks[i].body)]
          IN /\ db' = [db EXCEPT ![t.deviceId] = deviceSchema]
             /\ tasks' = [tasks EXCEPT ![i] = t]
             /\ last' = Segment("assign_created", t, NoInput)
  /\ sent' = <<>>
  /\ UNCHANGED <<conns, nops>>

\* the save of an assign returns: the ota message is dispatched and the
\* request is answered, 500 if a write threw out of the dispatch
AssignSaved(i, F) ==
  /\ i \in 1..Len(tasks)
  /\ tasks[i].kind = "assign"
  /\ tasks[i].pc = "save"
  /\ F \subseteq {c \in Selected(tasks[i].body) : IsOpen(c)}
  /\ LET t == [tasks[i] EXCEPT !.failing = F]
     IN /\ db' = [db EXCEPT ![t.deviceId] = Save(@, t.orig, t.cfg)]
        /\ tasks' = Remove(tasks, i)
        /\ last' = Segment(IF BroadcastThrew(t.body, F) THEN "assign_failed" ELSE "assign_done",
                           t, NoInput)
        /\ sent' = Broadcast(t.body, F)
  /\ UNCHANGED <<conns, nops>>

\* ------------------------------------------------------------ specification
Next ==
  \/ \E c \in Conns : Connect(c)
  \/ \E c \in Conns : Close(c)
  \/ \E c \in Conns, m \in Messages : RecvHello(c, m)
  \/ \E i \in 1..MaxOps : HelloFound(i)
  \/ \E i \in 1..MaxOps : HelloCleared(i)
  \/ \E c \in Conns, m \in Messages : RecvOtaAck(c, m)
  \/ \E i \in 1..MaxOps : OtaAckUpdated(i)
  \/ \E c \in Conns, m \in Messages, now \in Times, F \in WriteFailures(Conns) :
       RecvTelemetry(c, m, now, F)
  \/ \E c \in Conns, m \in Messages : RecvCfg(c, m)
  \/ \E i \in 1..MaxOps : CfgFound(i)
  \/ \E c \in Conns, m \in Messages : RecvIgnored(c, m)
  \/ \E r \in Requests : AssignRejected(r)
  \/ \E r \in Requests : RecvAssign(r)
  \/ \E i \in 1..MaxOps : AssignFound(i)
  \/ \E i \in 1..MaxOps : AssignCreated(i)
  \/ \E i \in 1..MaxOps, F \in WriteFailures(Conns) : AssignSaved(i, F)

Spec == Init /\ [][Next]_vars

\* -------------------------------------------------- an announced connection
\* The server some time after its start: an assignment is pending for "d",
\* and the first connection is open and bound to "d" (it was accepted and
\* its hello for "d", which reported no version, has completed).
InitAnnounced ==
  /\ db = [d \in Devices |->
            IF d = <<"d">>
            THEN [deviceSchema EXCEPT !.firmwareUrl = Str(<<"u">>), !.firmwareVersion = <<"1">>,
                                      !.firmwareSha256 = <<"a">>, !.firmwareSize = 4 * Unit]
            ELSE NoDoc]
  /\ conns = [c \in Conns |->
               IF c = 1 THEN [state |-> "open", deviceId |-> Str(<<"d">>)] ELSE NoConn]
  /\ tasks = <<>>
  /\ nops = 0
  /\ last = Segment("init", NoTask, NoInput)
  /\ sent = <<>>

\* the server from that state on
SpecAnnounced == InitAnnounced /\ [][Next]_vars

\* ------------------------------------------------------ directory failures
\* the directory after the operation a suspended handler waits for has
\* taken effect
PendingWrite(t) ==
  IF t.deviceId \notin DOMAIN db THEN db
  ELSE IF t.kind = "hello" /\ t.pc = "clear"
       THEN [db EXCEPT ![t.deviceId] = HelloClearUpdate(@, t.cfg.firmwareVersion)]
  ELSE IF t.kind = "ota_ack" /\ t.pc = "update"
       THEN [db EXCEPT ![t.deviceId] = OtaAckUpdate(@, t.deviceVersion.s, t.sha)]
  ELSE IF t.kind = "assign" /\ t.pc = "create" /\ ~db[t.deviceId].exists
       THEN [db EXCEPT ![t.deviceId] = deviceSchema]
  ELSE IF t.kind = "assign" /\ t.pc = "save"
       THEN [db EXCEPT ![t.deviceId] = Save(@, t.orig, t.cfg)]
  ELSE db

\* the catch that a rejected await lands in
FailedOp(kind) ==
  IF kind = "hello" THEN "hello_failed"
  ELSE IF kind = "ota_ack" THEN "ota_ack_failed"
  ELSE IF kind = "cfg" THEN "cfg_failed"
  ELSE "assign_500"

\* mutant: the catch of the socket handler terminates the connection
DirectoryFailed_ClosesConnection(i, applied) ==
  /\ i \in 1..Len(tasks)
  /\ applied => PendingWrite(tasks[i]) # db
  /\ db' = IF applied THEN PendingWrite(tasks[i]) ELSE db
  /\ conns' = IF tasks[i].conn \in Conns
              THEN [conns EXCEPT ![tasks[i].conn].state = "closed"]
              ELSE conns
  /\ tasks' = Remove(tasks, i)
  /\ last' = Segment(FailedOp(tasks[i].kind), tasks[i], NoInput)
  /\ sent' = <<>>
  /\ UNCHANGED nops

\* the directory operation a handler awaits is rejected: the handler ends
\* in its catch, which logs (a socket handler) or answers 500 (the
\* endpoint).  A rejected write may or may not have reached the store.
DirectoryFailed(i, applied) ==
  /\ i \in 1..Len(tasks)
  /\ applied => PendingWrite(tasks[i]) # db
  /\ db' = IF applied THEN PendingWrite(tasks[i]) ELSE db
  /\ tasks' = Remove(tasks, i)
  /\ last' = Segment(FailedOp(tasks[i].kind), tasks[i], NoInput)
  /\ sent' = <<>>
  /\ UNCHANGED <<conns, nops>>

NextWithFailures ==
  \/ Next
  \/ \E i \in 1..MaxOps, applied \in BOOLEAN : DirectoryFailed(i, applied)

\* the server over a directory whose operations may fail
SpecDirectoryFailures == Init /\ [][NextWithFailures]_vars

\* ------------------------------------------------------------ properties
\* an assignment is pending in a looked-up document
Pending(doc) == doc.exists /\ doc.firmwareUrl.t = "string" /\ doc.firmwareUrl.s # <<>>

\* the messages with that event written to a connection by a segment
CountSent(log, c, ev) ==
  Cardinality({i \in DOMAIN log : log[i].to = c /\ log[i].msg.event = ev})

\* x || null for a stored string
OrNull(x) == IF x = <<>> THEN Null ELSE Str(x)

\* the segment that ended the handling of a hello
HelloEnds(seg) == seg.op \in {"hello_done", "hello_cleared"}

\* C1: a hello that reports the stored firmwareVersion of a record with a
\* pending assignment leaves firmwareUrl empty, sends exactly one ota_ack to
\* the announcing connection and no ota.  (The record is the one the hello
\* looked up, not written by another handler before the hello ends, and the
\* connection is still open when the hello ends.)
C1_HelloMatchClears ==
  [][(/\ HelloEnds(last')
      /\ Record(db, last'.task.deviceId) = last'.task.cfg
      /\ Pending(last'.task.cfg)
      /\ Truthy(last'.task.deviceVersion)
      /\ last'.task.deviceVersion = Str(last'.task.cfg.firmwareVersion)
      /\ IsOpen(last'.task.conn))
     => (/\ Record(db', last'.task.deviceId).exists
         /\ Record(db', last'.task.deviceId).firmwareUrl = Str(<<>>)
         /\ CountSent(sent', last'.task.conn, EvOtaAck) = 1
         /\ CountSent(sent', last'.task.conn, EvOta) = 0)]_vars

C1_Witness ==
  /\ last.op = "hello_cleared"
  /\ Pending(last.task.cfg)
  /\ last.task.deviceVersion = Str(last.task.cfg.firmwareVersion)
  /\ findOne(last.task.deviceId).firmwareUrl = Str(<<>>)
  /\ CountSent(sent, last.task.conn, EvOtaAck) = 1

\* C2: a hello whose version is absent or differs from the stored
\* firmwareVersion of a record with a pending assignment sends exactly one
\* ota carrying the stored url, version and hash to the announcing
\* connection, and the assignment stays pending.  (Same provisos as C1.)
C2_HelloMismatchNotifies ==
  [][(/\ HelloEnds(last')
      /\ Record(db, last'.task.deviceId) = last'.task.cfg
      /\ Pending(last'.task.cfg)
      /\ \/ ~Truthy(last'.task.deviceVersion)
         \/ last'.task.deviceVersion # Str(last'.task.cfg.firmwareVersion)
      /\ IsOpen(last'.task.conn))
     => (/\ CountSent(sent', last'.task.conn, EvOta) = 1
         /\ \A i \in DOMAIN sent' :
              sent'[i].msg.event = EvOta =>
                /\ sent'[i].msg.url = Record(db, last'.task.deviceId).firmwareUrl
                /\ sent'[i].msg.version = OrNull(Record(db, last'.task.deviceId).firmwareVersion)
                /\ sent'[i].msg.firmwareSha256 =
                     OrNull(Record(db, last'.task.deviceId).firmwareSha256)
         /\ Pending(Record(db', last'.task.deviceId)))]_vars

C2_Witness ==
  /\ last.op = "hello_done"
  /\ Pending(last.task.cfg)
  /\ Truthy(last.task.deviceVersion)
  /\ last.task.deviceVersion # Str(last.task.cfg.firmwareVersion)
  /\ CountSent(sent, last.task.conn, EvOta) = 1
  /\ Pending(findOne(last.task.deviceId))

\* C3, as claimed: every hello sends exactly one config to the announcing
\* connection (open when the hello ends), also when no record is stored
C3_AlwaysOneConfig ==
  (HelloEnds(last) /\ IsOpen(last.task.conn))
    => CountSent(sent, last.task.conn, EvConfig) = 1

\* C3, amended: a hello sends exactly one config to the announcing
\* connection (open when the hello ends) when its lookup finds a record,
\* pending or not, and none when no record is stored
C3_OneConfigPerRecord ==
  (HelloEnds(last) /\ IsOpen(last.task.conn))
    => CountSent(sent, last.task.conn, EvConfig) = (IF last.task.cfg.exists THEN 1 ELSE 0)

C3_Witness ==
  /\ last.op = "hello_done"
  /\ IsOpen(last.task.conn)
  /\ last.task.cfg.exists
  /\ ~Pending(last.task.cfg)
  /\ CountSent(sent, last.task.conn, EvConfig) = 1

\* C4: an ota_ack for D with version V, on any connection and whatever the
\* assignment state of D's record, leaves the record with firmwareUrl empty
\* and firmwareVersion V
C4_AckClearsAndRecords ==
  (last.op = "ota_ack_done" /\ findOne(last.task.deviceId).exists)
    => /\ findOne(last.task.deviceId).firmwareUrl = Str(<<>>)
       /\ ~Pending(findOne(last.task.deviceId))
       /\ findOne(last.task.deviceId).firmwareVersion = last.task.deviceVersion.s

C4_Witness ==
  /\ last.op = "ota_ack_done"
  /\ conns[last.task.conn].deviceId = Undef
  /\ findOne(last.task.deviceId).exists
  /\ findOne(last.task.deviceId).firmwareVersion = <<"1">>

\* the connections a segment wrote to
Recipients(log) == {log[i].to : i \in DOMAIN log}

\* C5: a telemetry message received on C is delivered, once, to every
\* connection other than C that is open at the fan-out and whose write does
\* not fail, and never to C
C5_TelemetryFanOut ==
  last.op = "telemetry"
    => /\ Recipients(sent) =
            {c \in Conns : c # last.task.conn /\ IsOpen(c)} \ last.task.failing
       /\ Len(sent) = Cardinality(Recipients(sent))
       /\ \A i \in DOMAIN sent :
            /\ sent[i].msg.event = EvTelemetry
            /\ sent[i].msg.deviceId = Str(Trim(last.inp.deviceId.s))

C5_Witness ==
  /\ last.op = "telemetry"
  /\ Len(sent) = 1
  /\ \E c \in Conns : c # last.task.conn /\ conns[c].state = "closed"

\* C6: an assign request whose firmwareUrl is empty or missing is refused,
\* changes no record and sends nothing
C6_InvalidAssignment ==
  [][(last'.op \in {"assign_400", "assign_recv"} /\ ~Truthy(last'.inp.firmwareUrl))
     => (/\ last'.op = "assign_400"
         /\ db' = db
         /\ tasks' = tasks
         /\ sent' = <<>>)]_vars

C6_Witness ==
  /\ last.op = "assign_400"
  /\ last.inp.firmwareUrl = Str(<<>>)
  /\ db[last.task.deviceId].exists
  /\ \E c \in Conns : IsOpen(c)

\* C7: a successful assign for D sends its ota message, once each, to every
\* open connection when the scope is "all", and otherwise to exactly the
\* open connections bound to D (those whose write does not fail)
C7_AssignDispatch ==
  last.op = "assign_done"
    => /\ Recipients(sent) =
            (IF last.task.body.broadcast = Str(ScopeAll)
             THEN {c \in Conns : IsOpen(c)}
             ELSE {c \in Conns : IsOpen(c) /\ conns[c].deviceId = Str(last.task.deviceId)})
            \ last.task.failing
       /\ Len(sent) = Cardinality(Recipients(sent))
       /\ \A i \in DOMAIN sent : sent[i].msg.event = EvOta

C7_Witness ==
  /\ last.op = "assign_done"
  /\ last.task.body.broadcast # Str(ScopeAll)
  /\ Len(sent) = 1
  /\ \E c \in Conns : IsOpen(c) /\ conns[c].deviceId = Undef

\* C8: a successful assign creates the record with the defaults if there is
\* none, sets firmwareUrl, overwrites version, hash and size where the
\* request supplies them and leaves every other field as it was.  (The
\* record is not written by another handler between the load and the save.)
C8_AssignUpdatesRecord ==
  [][/\ last'.op = "assign_created"
          => (/\ ~Record(db, last'.task.deviceId).exists
              /\ db'[last'.task.deviceId] = deviceSchema)
     /\ (last'.op = "assign_done" /\ Record(db, last'.task.deviceId) = last'.task.orig)
          => LET pre == Record(db, last'.task.deviceId)
                 post == Record(db', last'.task.deviceId)
                 body == last'.task.body
             IN /\ post.exists
                /\ post.firmwareUrl = body.firmwareUrl
                /\ post.firmwareVersion =
                     IF Truthy(body.firmwareVersion) THEN body.firmwareVersion.s
                     ELSE pre.firmwareVersion
                /\ post.firmwareSha256 =
                     IF Truthy(body.firmwareSha256) THEN body.firmwareSha256.s
                     ELSE pre.firmwareSha256
                /\ post.firmwareSize =
                     IF Truthy(body.firmwareSize) THEN body.firmwareSize.n
                     ELSE pre.firmwareSize
                /\ post.secondsToRead = pre.secondsToRead
                /\ post.threshold = pre.threshold
                /\ post.enabled = pre.enabled
                /\ \A d \in Devices \ {last'.task.deviceId} : db'[d] = db[d]]_vars

C8_Witness ==
  /\ last.op = "assign_done"
  /\ ~Truthy(last.task.body.firmwareVersion)
  /\ last.task.orig.firmwareVersion # <<>>
  /\ last.task.orig.firmwareUrl # last.task.body.firmwareUrl
  /\ findOne(last.task.deviceId).firmwareVersion = last.task.orig.firmwareVersion
  /\ findOne(last.task.deviceId).firmwareUrl = last.task.body.firmwareUrl

\* C9: the weight of a telemetry fan-out is the numeric weight if there is
\* one, else the numeric kg, else grams divided by 1000 (2500 grams is 2.5)
C9_WeightPriority ==
  last.op = "telemetry"
    => \A i \in DOMAIN sent :
         LET w == sent[i].msg.weight
             m == last.inp
         IN /\ w.t = "number"
            /\ m.weight.t = "number" => w = m.weight
            /\ (m.weight.t # "number" /\ m.kg.t = "number") => w = m.kg
            /\ (m.weight.t # "number" /\ m.kg.t # "number") => w.n * 1000 = m.grams.n
            /\ (m.weight.t # "number" /\ m.kg.t # "number" /\ m.grams = Num(2500 * Unit))
                 => w.n * 2 = 5 * Unit

C9_Witness ==
  /\ last.op = "telemetry"
  /\ last.inp.weight.t # "number"
  /\ last.inp.kg.t # "number"
  /\ last.inp.grams = Num(2500 * Unit)
  /\ Len(sent) >= 1
  /\ sent[1].msg.weight.n * 2 = 5 * Unit

\* C10, as claimed: a hello for a record without a pending assignment sends
\* no ota_ack and no ota, does not modify the record and sends the config,
\* whatever version it reports
C10_NoPendingHelloIsQuiet ==
  [][(/\ HelloEnds(last')
      /\ Record(db, last'.task.deviceId) = last'.task.cfg
      /\ last'.task.cfg.exists
      /\ ~Pending(last'.task.cfg)
      /\ IsOpen(last'.task.conn))
     => (/\ CountSent(sent', last'.task.conn, EvOtaAck) = 0
         /\ CountSent(sent', last'.task.conn, EvOta) = 0
         /\ db' = db
         /\ CountSent(sent', last'.task.conn, EvConfig) = 1)]_vars

\* C11, as claimed: the clear of a hello changes only firmwareUrl, to empty;
\* firmwareVersion, firmwareSha256 and every other field of the record keep
\* their values
C11_ClearChangesOnlyUrl ==
  [][last'.op = "hello_cleared"
     => LET pre == Record(db, last'.task.deviceId)
            post == Record(db', last'.task.deviceId)
        IN /\ post = [pre EXCEPT !.firmwareUrl = post.firmwareUrl]
           /\ post.firmwareUrl \in {pre.firmwareUrl, Str(<<>>)}]_vars

\* C11, amended: the clear of a hello changes only firmwareUrl and
\* firmwareSha256, both to empty; firmwareVersion, firmwareSize, the poll
\* interval, the threshold and the enabled flag keep their values, and so
\* does every other record
C11_ClearChangesUrlAndHash ==
  [][last'.op = "hello_cleared"
     => LET pre == Record(db, last'.task.deviceId)
            post == Record(db', last'.task.deviceId)
        IN /\ post = [pre EXCEPT !.firmwareUrl = post.firmwareUrl,
                                 !.firmwareSha256 = post.firmwareSha256]
           /\ post.firmwareUrl \in {pre.firmwareUrl, Str(<<>>)}
           /\ post.firmwareSha256 \in {pre.firmwareSha256, <<>>}
           /\ \A d \in Devices \ {last'.task.deviceId} : db'[d] = db[d]]_vars

C11_Witness ==
  /\ last.op = "hello_cleared"
  /\ Pending(last.task.cfg)
  /\ last.task.cfg.firmwareSha256 # <<>>
  /\ findOne(last.task.deviceId).firmwareUrl = Str(<<>>)
  /\ findOne(last.task.deviceId).firmwareSha256 = <<>>
  /\ findOne(last.task.deviceId).firmwareVersion = last.task.cfg.firmwareVersion
  /\ findOne(last.task.deviceId).firmwareVersion # <<>>
  /\ findOne(last.task.deviceId).firmwareSize = last.task.cfg.firmwareSize

\* the hash an ota_ack message supplies: sha, else firmwareSha256, else none
SuppliedHash(m) ==
  IF Truthy(m.sha) THEN m.sha.s
  ELSE IF Truthy(m.firmwareSha256) THEN m.firmwareSha256.s
  ELSE <<>>

\* the record fields an ota_ack has no business with
Settings(doc) == <<doc.secondsToRead, doc.threshold, doc.enabled>>

\* C12, as claimed: an ota_ack without a hash leaves the stored
\* firmwareSha256 as it was, one with a hash stores that hash, and no ota_ack
\* changes the poll interval, the threshold or the enabled flag
C12_AckHashOnlyIfSupplied ==
  [][/\ last'.op = "ota_ack_recv" => last'.task.sha = SuppliedHash(last'.inp)
     /\ (last'.op = "ota_ack_done" /\ Record(db, last'.task.deviceId).exists)
          => LET pre == Record(db, last'.task.deviceId)
                 post == Record(db', last'.task.deviceId)
             IN /\ post.firmwareSha256 =
                     IF last'.task.sha # <<>> THEN last'.task.sha ELSE pre.firmwareSha256
                /\ Settings(post) = Settings(pre)]_vars

\* C12, amended: an ota_ack sets the stored firmwareSha256 to the hash the
\* message supplies (sha, else firmwareSha256) and to empty when it supplies
\* none, and no ota_ack changes the poll interval, the threshold or the
\* enabled flag
C12_AckAlwaysWritesHash ==
  [][/\ last'.op = "ota_ack_recv" => last'.task.sha = SuppliedHash(last'.inp)
     /\ (last'.op = "ota_ack_done" /\ Record(db, last'.task.deviceId).exists)
          => LET pre == Record(db, last'.task.deviceId)
                 post == Record(db', last'.task.deviceId)
             IN /\ post.firmwareSha256 = last'.task.sha
                /\ Settings(post) = Settings(pre)]_vars

\* the only operation so far is an ota_ack without a hash, on a record that
\* was stored with a hash
C12_Witness ==
  /\ last.op = "ota_ack_done"
  /\ nops = 1
  /\ last.task.sha = <<>>
  /\ findOne(last.task.deviceId).exists
  /\ findOne(last.task.deviceId).firmwareSha256 = <<>>
  /\ findOne(last.task.deviceId).enabled

\* the open connections a fan-out segment selected
FanOutTargets(seg) ==
  IF seg.op = "telemetry" THEN {c \in Conns : c # seg.task.conn /\ IsOpen(c)}
  ELSE IF seg.task.body.broadcast = Str(ScopeAll) THEN {c \in Conns : IsOpen(c)}
  ELSE {c \in Conns : IsOpen(c) /\ conns[c].deviceId = Str(seg.task.deviceId)}

\* C13, as claimed: in every fan-out (assign with scope "all", targeted
\* assign, telemetry) a write that fails on one selected connection does not
\* stop the delivery to the other selected open connections and does not
\* fail the operation that fanned out
C13_FanOutIsolatesFailures ==
  (last.op \in {"telemetry", "assign_done", "assign_failed"} /\ last.task.failing # {})
    => /\ Recipients(sent) = FanOutTargets(last) \ last.task.failing
       /\ last.op # "assign_failed"

\* C14: a cfg request naming D sends one config message for D, read from
\* D's record, to the requesting connection if it is open when the lookup
\* returns and there is a record; it sends nothing otherwise, nothing to any
\* other connection, and changes neither the directory nor a binding
C14_CfgRepliesToRequester ==
  [][/\ last'.op = "cfg_recv"
          => (/\ sent' = <<>> /\ db' = db /\ conns' = conns
              /\ last'.task.deviceId = JsString(last'.inp.deviceId))
     /\ last'.op = "cfg_done"
          => LET c == last'.task.conn
                 cfg == Record(db, last'.task.deviceId)
             IN /\ db' = db
                /\ conns' = conns
                /\ Len(sent') = (IF IsOpen(c) /\ cfg.exists THEN 1 ELSE 0)
                /\ \A i \in DOMAIN sent' :
                     /\ sent'[i].to = c
                     /\ sent'[i].msg.event = EvConfig
                     /\ sent'[i].msg.deviceId = Str(last'.task.deviceId)
                     /\ sent'[i].msg.secondsToRead = cfg.secondsToRead
                     /\ sent'[i].msg.threshold = cfg.threshold
                     /\ sent'[i].msg.enabled = cfg.enabled]_vars

C14_Witness ==
  /\ last.op = "cfg_done"
  /\ Len(sent) = 1
  /\ sent[1].to = last.task.conn
  /\ \E b \in Conns \ {last.task.conn} :
       IsOpen(b) /\ conns[b].deviceId = Str(last.task.deviceId)

\* the segments that receive a socket message
SocketReceives == {"hello_recv", "ota_ack_recv", "telemetry", "cfg_recv", "ignored"}

\* what each kind of message needs, in the words of the protocol
IsObject(m) == m.json = "object"
IsHello(m) == IsObject(m) /\ m.event = Str(EvHello) /\ Truthy(m.deviceId)
IsOtaAck(m) ==
  IsObject(m) /\ m.event = Str(EvOtaAck) /\ Truthy(m.deviceId) /\ Truthy(m.version)
IsTelemetryShape(m) ==
  /\ IsObject(m)
  /\ m.deviceId.t = "string" /\ m.deviceId.s # <<>>
  /\ \E f \in {m.weight, m.kg, m.grams} : f.t = "number"
IsCfg(m) == IsObject(m) /\ m.event = Str(EvCfg) /\ Truthy(m.deviceId)

\* C15: a message that cannot be parsed, or that matches none of hello,
\* ota_ack, telemetry-by-shape and cfg, sends nothing, starts nothing, and
\* leaves the directory and every connection's state and binding as they were
C15_IgnoredHasNoEffect ==
  [][(/\ last'.op \in SocketReceives
      /\ ~IsHello(last'.inp) /\ ~IsOtaAck(last'.inp)
      /\ ~IsTelemetryShape(last'.inp) /\ ~IsCfg(last'.inp))
     => (/\ last'.op = "ignored"
         /\ sent' = <<>>
         /\ db' = db
         /\ conns' = conns
         /\ tasks' = tasks)]_vars

\* a hello without a device identifier on a connection bound by an earlier
\* hello
C15_Witness ==
  /\ last.op = "ignored"
  /\ last.inp.json = "object"
  /\ last.inp.event = Str(EvHello)
  /\ ~Truthy(last.inp.deviceId)
  /\ conns[last.task.conn].deviceId = Str(<<"d">>)
  /\ sent = <<>>

\* C16: among the messages one hello writes to its connection, the config
\* message comes after the ota notification or the acknowledgement
C16_ConfigAfterOta ==
  HelloEnds(last)
    => \A i, j \in DOMAIN sent :
         (sent[i].msg.event = EvConfig /\ sent[j].msg.event \in {EvOta, EvOtaAck})
           => (j < i /\ sent[i].to = last.task.conn /\ sent[j].to = last.task.conn)

C16_Witness ==
  /\ last.op = "hello_done"
  /\ Len(sent) = 2
  /\ sent[1].msg.event = EvOta
  /\ sent[2].msg.event = EvConfig

\* the segments in which a socket handler writes the directory or replies
SocketEnds == {"hello_done", "hello_cleared", "ota_ack_done", "cfg_done"}

\* C17, as claimed: the directory writes and the replies caused by a message
\* take effect before those of a later message of the same connection: no
\* handler writes or replies while the handler of an earlier message of its
\* connection is still suspended on the directory
C17_PerConnectionOrder ==
  [][(last'.op \in SocketEnds /\ (sent' # <<>> \/ db' # db))
     => \E i \in DOMAIN tasks :
          /\ tasks' = Remove(tasks, i)
          /\ tasks[i].conn = last'.task.conn
          /\ \A j \in 1..(i - 1) : tasks[j].conn # last'.task.conn]_vars

\* C18: an assign and an ota_ack for the same device are not serialized and
\* the write that lands last decides: an ota_ack that lands while the assign
\* is between its load and its save leaves firmwareUrl empty, and the save
\* of an assign that changes the url leaves the assigned url pending also
\* when the record was written since the assign loaded it
C18_AssignAckRace ==
  [][/\ (/\ last'.op = "ota_ack_done"
         /\ Record(db, last'.task.deviceId).exists
         /\ \E j \in DOMAIN tasks :
              /\ tasks[j].kind = "assign" /\ tasks[j].pc = "save"
              /\ tasks[j].deviceId = last'.task.deviceId)
          => (/\ ~Pending(Record(db', last'.task.deviceId))
              /\ \E j \in DOMAIN tasks' : tasks'[j].kind = "assign" /\ tasks'[j].pc = "save")
     /\ (/\ last'.op \in {"assign_done", "assign_failed"}
         /\ Record(db, last'.task.deviceId) # last'.task.orig
         /\ last'.task.body.firmwareUrl # last'.task.orig.firmwareUrl)
          => (/\ Pending(Record(db', last'.task.deviceId))
              /\ Record(db', last'.task.deviceId).firmwareUrl = last'.task.body.firmwareUrl)]_vars

\* the assign saved last: it carries neither version nor hash, and both
\* differ from the ones it loaded, which only an ota_ack between its load
\* and its save does; the url it assigned is pending
C18_Witness ==
  /\ last.op = "assign_done"
  /\ nops = 2
  /\ tasks = <<>>
  /\ ~Truthy(last.task.body.firmwareVersion)
  /\ ~Truthy(last.task.body.firmwareSha256)
  /\ findOne(last.task.deviceId).firmwareVersion # last.task.orig.firmwareVersion
  /\ findOne(last.task.deviceId).firmwareSha256 # last.task.orig.firmwareSha256
  /\ Pending(findOne(last.task.deviceId))

\* the other outcome of the race: the ota_ack landed last, after the save of
\* an assign (the only writer of this firmwareSize), and no url is pending
C18_AckLast ==
  /\ last.op = "ota_ack_done"
  /\ nops = 2
  /\ tasks = <<>>
  /\ findOne(last.task.deviceId).firmwareSize = 8 * Unit
  /\ ~Pending(findOne(last.task.deviceId))

Priority(m) ==
  IF IsHello(m) THEN "hello_recv"
  ELSE IF IsOtaAck(m) THEN "ota_ack_recv"
  ELSE IF IsTelemetryShape(m) THEN "telemetry"
  ELSE IF IsCfg(m) THEN "cfg_recv"
  ELSE "ignored"

\* the handler a receiving segment leaves suspended
Started(op) ==
  IF op = "hello_recv" THEN "hello"
  ELSE IF op = "ota_ack_recv" THEN "ota_ack"
  ELSE IF op = "cfg_recv" THEN "cfg"
  ELSE "none"

\* C20: a parsed message is handled by exactly one branch, the first of
\* hello, ota_ack, telemetry-by-shape, cfg, fallback that it matches: it
\* starts that branch's handler and no other, a telemetry fan-out is written
\* only by the telemetry branch and a config message only by a hello or a
\* cfg handler
C20_DispatchPriority ==
  [][/\ (last'.op \in SocketReceives /\ IsObject(last'.inp))
          => (/\ last'.op = Priority(last'.inp)
              /\ tasks' = IF Started(last'.op) = "none" THEN tasks
                          ELSE Append(tasks, tasks'[Len(tasks')])
              /\ Started(last'.op) # "none" => tasks'[Len(tasks')].kind = Started(last'.op)
              /\ last'.op # "telemetry" => sent' = <<>>)
     /\ \A i \in DOMAIN sent' :
          /\ sent'[i].msg.event = EvTelemetry => last'.op = "telemetry"
          /\ sent'[i].msg.event = EvConfig
               => (/\ last'.op \in {"hello_done", "hello_cleared", "cfg_done"}
                   /\ last'.task.kind = (IF last'.op = "cfg_done" THEN "cfg" ELSE "hello"))]_vars

\* a message with event cfg, a string identifier and a numeric kg was fanned
\* out as telemetry and left no handler behind
C20_Witness ==
  /\ last.op = "telemetry"
  /\ last.inp.event = Str(EvCfg)
  /\ last.inp.kg.t = "number"
  /\ Len(sent) >= 1
  /\ sent[1].msg.event = EvTelemetry
  /\ tasks = <<>>

\* the catches of the socket handlers
SocketFailures == {"hello_failed", "ota_ack_failed", "cfg_failed"}

\* C21: a directory failure in a hello, ota_ack or cfg handler ends that
\* handler alone: it sends nothing then or later, no connection is closed
\* or re-bound, the operation is not issued again, the other suspended
\* handlers stay as they were, and the sender's connection, if open, still
\* has its next message handled
C21_FailureAbortsOnlyHandler ==
  /\ [][last'.op \in SocketFailures
       => (/\ sent' = <<>>
           /\ conns' = conns
           /\ nops' = nops
           /\ Len(tasks') = Len(tasks) - 1
           /\ \E i \in DOMAIN tasks :
                /\ tasks[i] = last'.task
                /\ tasks' = Remove(tasks, i))]_vars
  /\ []((last.op \in SocketFailures /\ IsOpen(last.task.conn) /\ nops < MaxOps)
          => \A m \in Messages :
               Branch(m) = "cfg" => ENABLED RecvCfg(last.task.conn, m))

\* the clear of a hello was rejected while another handler is suspended:
\* that handler is still there, the connection of the hello is still open
\* and bound
C21_Witness ==
  /\ last.op = "hello_failed"
  /\ last.task.pc = "clear"
  /\ IsOpen(last.task.conn)
  /\ conns[last.task.conn].deviceId = Str(last.task.deviceId)
  /\ Len(tasks) = 1
  /\ tasks[1].kind \in {"ota_ack", "cfg"}
  /\ sent = <<>>

\* C22: the clear of a hello applies only if the stored firmwareVersion is
\* still the one the hello read: when the record holds another version by
\* the time the clear runs (an assign was saved in between), the clear
\* changes nothing and an assigned firmwareUrl stays pending
C22_ClearNeedsSameVersion ==
  [][(/\ last'.op = "hello_cleared"
      /\ Record(db, last'.task.deviceId).exists
      /\ Record(db, last'.task.deviceId).firmwareVersion # last'.task.cfg.firmwareVersion)
     => (/\ db' = db
         /\ Pending(Record(db, last'.task.deviceId))
              => /\ Pending(Record(db', last'.task.deviceId))
                 /\ Record(db', last'.task.deviceId).firmwareUrl =
                      Record(db, last'.task.deviceId).firmwareUrl)]_vars

\* the hello read one version and url, an assign with another version and
\* url was saved before the clear, and that url is pending after the hello
C22_Witness ==
  /\ last.op = "hello_cleared"
  /\ nops = 2
  /\ tasks = <<>>
  /\ Pending(last.task.cfg)
  /\ findOne(last.task.deviceId).firmwareVersion # last.task.cfg.firmwareVersion
  /\ findOne(last.task.deviceId).firmwareUrl # last.task.cfg.firmwareUrl
  /\ Pending(findOne(last.task.deviceId))

\* the url that is pending for a record, empty when none is (also when
\* there is no record)
PendingUrl(doc) == IF Pending(doc) THEN doc.firmwareUrl.s ELSE <<>>

\* the segments that save an assign
AssignSaves == {"assign_done", "assign_failed"}

\* C23: a pending assignment changes only through the protocol: in every
\* step the firmwareUrl of a device becomes non-empty only by the save of an
\* assign for that device, becomes empty only by an ota_ack for that device
\* or by the clear of a hello for that device that reported the stored
\* firmwareVersion, and does not change at all in any other step (telemetry,
\* cfg, a hello that does not match, ignored messages, opens and closes,
\* operations that name another device)
C23_PendingChangesByProtocol ==
  [][\A d \in Devices :
       LET pre == Record(db, d)
           post == Record(db', d)
       IN /\ (~Pending(pre) /\ Pending(post))
               => (last'.op \in AssignSaves /\ last'.task.deviceId = d)
          /\ (Pending(pre) /\ ~Pending(post))
               => \/ last'.op = "ota_ack_done" /\ last'.task.deviceId = d
                  \/ /\ last'.op = "hello_cleared"
                     /\ last'.task.deviceId = d
                     /\ last'.task.deviceVersion = Str(pre.firmwareVersion)
          /\ PendingUrl(post) # PendingUrl(pre)
               => (/\ last'.op \in AssignSaves \cup {"ota_ack_done", "hello_cleared"}
                   /\ last'.task.deviceId = d)]_vars

\* the only operation so far is a hello that found an assignment pending
\* and left none
C23_Witness ==
  /\ last.op = "hello_cleared"
  /\ nops = 1
  /\ Pending(last.task.cfg)
  /\ db[last.task.deviceId].exists
  /\ ~Pending(findOne(last.task.deviceId))
  /\ \A d \in Devices \ {last.task.deviceId} : ~db[d].exists

\* C24: the binding of a connection is set by a hello received on that
\* connection and by nothing else: it is unset when the connection is
\* accepted, every hello on the connection overwrites it with the announced
\* identifier, no other segment (ota_ack, telemetry, cfg, assign, a hello on
\* another connection) changes it whatever device it names, and a targeted
\* assign writes only to connections whose binding at the dispatch is its
\* device
C24_BindingOnlyByHello ==
  [][\A c \in Conns :
       /\ conns'[c].deviceId # conns[c].deviceId
            => (last'.op = "hello_recv" /\ last'.task.conn = c)
       /\ (last'.op = "hello_recv" /\ last'.task.conn = c)
            => conns'[c].deviceId = Str(Trim(JsString(last'.inp.deviceId)))
       /\ (last'.op = "connect" /\ last'.task.conn = c)
            => conns'[c].deviceId = Undef
       /\ (/\ last'.op = "assign_done"
           /\ last'.task.body.broadcast # Str(ScopeAll)
           /\ c \in Recipients(sent'))
            => conns'[c].deviceId = Str(last'.task.deviceId)]_vars

\* the first connection, bound to "d" at the start, was re-bound to "e" by a
\* later hello: a targeted assign for "d" writes nothing to it
C24_Witness ==
  /\ last.op = "assign_done"
  /\ last.task.body.broadcast # Str(ScopeAll)
  /\ last.task.deviceId = <<"d">>
  /\ IsOpen(1)
  /\ conns[1].deviceId = Str(<<"e">>)
  /\ sent = <<>>

\* two connections hold the same identifier at once, and a targeted assign
\* writes to both
C24_SharedIdentifier ==
  /\ last.op = "assign_done"
  /\ last.task.body.broadcast # Str(ScopeAll)
  /\ conns[1].deviceId = Str(last.task.deviceId)
  /\ conns[2].deviceId = Str(last.task.deviceId)
  /\ Recipients(sent) = {1, 2}

====
